---- MODULE Spec2Model ----
(***************************************************************************)
(* Letter Boxed solver (src/lb.py): the word filter (is_word_valid,        *)
(* trim_dictionary) and the recursive chain search (solve,                 *)
(* recursive_solve), as a state machine.                                   *)
(*                                                                         *)
(* A character is a one-character string, a word a sequence of characters, *)
(* a chain a sequence of words.  An optional command-line integer is <<>>  *)
(* (None: the option was not given) or <<n>>.                              *)
(***************************************************************************)
EXTENDS Integers, Sequences, FiniteSets, TLC

VARIABLES
    argv,           \* the command line as argparse returns it (lb.py 67)
    dictionary,     \* the word list get_dictionary returns (lb.py 242)
    args,           \* the args namespace: configuration and search_words
    all_solutions,  \* the list recursive_solve appends to and returns
    stack,          \* the activations of recursive_solve, the innermost last
    pc,             \* where the program is
    call_args,      \* history: args as they were when the depth-0 call was made
    runs,           \* history: the result of every depth-0 call that returned
    word,           \* the word handed to is_word_valid on its own
    valid           \* what is_word_valid returned for it

vars == <<argv, dictionary, args, all_solutions, stack, pc, call_args, runs,
          word, valid>>

----------------------------------------------------------------------------
(* Bounds of the model *)

\* longest word handed to is_word_valid on its own
MaxWordLen == 3
\* longest dictionary the search is run on
MaxDict == 3
\* largest --depth given on the command line
MaxDepthArg == 2
\* depth-0 calls of recursive_solve in one behaviour
MaxRuns == 2

----------------------------------------------------------------------------
(* constants.py *)

MIN_WORD_LENGTH == 4
\* float('inf'): a length no word of the model reaches
MAX_WORD_LENGTH == 1000000
SEARCH_DEPTH == 4

----------------------------------------------------------------------------
(* Input sets *)

Seqs(S, n) == UNION {[1..k -> S] : k \in 0..n}

None == <<>>

\* characters of the words handed to is_word_valid on its own
FilterChars == {"a", "b", "c", "z", "A"}

Box(t, l, b, r) == [top |-> t, left |-> l, bottom |-> b, right |-> r]

\* one letter a side
BoxPlain == Box(<<"a">>, <<"b">>, <<"c">>, <<"d">>)
\* two letters on top, and "a" on top and on the right
BoxShared == Box(<<"a", "b">>, <<"c">>, <<"d">>, <<"a">>)
\* given in upper case
BoxUpper == Box(<<"A">>, <<"B">>, <<"c">>, <<"d">>)

FilterBoxes == {BoxPlain, BoxShared, BoxUpper}
SearchBoxes == {BoxPlain}

\* the words a searched dictionary is drawn from
Corpus == {<<"a", "b">>, <<"b", "a">>, <<"b", "c", "d">>, <<"d", "a">>,
           <<"a", "b", "c", "d">>}

Dictionaries == Seqs(Corpus, MaxDict)

OptNat(n) == {None} \cup {<<k>> : k \in 0..n}

----------------------------------------------------------------------------
(* str.lower() on the characters of the model *)

lower(c) ==
    CASE c = "A" -> "a"
      [] c = "B" -> "b"
      [] c = "C" -> "c"
      [] c = "D" -> "d"
      [] c = "Z" -> "z"
      [] OTHER -> c

lower_str(s) == [i \in 1..Len(s) |-> lower(s[i])]

\* x or default, for an optional integer: None and 0 are falsy
or_default(x, default) == IF x = None \/ x[1] = 0 THEN default ELSE x[1]

----------------------------------------------------------------------------
(* is_word_valid, trim_dictionary *)

Range(s) == {s[i] : i \in 1..Len(s)}

\* next((name for name, side in sides.items() if letter in side), None)
set_name(letter, a) ==
    IF letter \in Range(a.top) THEN "t"
    ELSE IF letter \in Range(a.left) THEN "l"
    ELSE IF letter \in Range(a.bottom) THEN "b"
    ELSE IF letter \in Range(a.right) THEN "r"
    ELSE "None"

\* the for loop of is_word_valid from its i-th letter on
RECURSIVE scan_letters(_, _, _, _)
scan_letters(w, i, prev_set_name, a) ==
    IF i > Len(w) THEN TRUE
    ELSE LET name == set_name(w[i], a)
         IN  IF name = "None" \/ name = prev_set_name THEN FALSE
             ELSE scan_letters(w, i + 1, name, a)

is_word_valid_no_side_check(w, a) ==
    IF Len(w) < a.min \/ Len(w) > a.max THEN FALSE
    ELSE \A i \in 1..Len(w) : set_name(w[i], a) /= "None"

is_word_valid(w, a) ==
    IF Len(w) < a.min \/ Len(w) > a.max THEN FALSE
    ELSE scan_letters(w, 1, "None", a)

trim_dictionary(d, a) == SelectSeq(d, LAMBDA w : is_word_valid(w, a))

----------------------------------------------------------------------------
(* parse_arguments *)

\* the namespace parse_args() returns; the attributes solve adds later are
\* shown empty until it sets them
namespace(v) ==
    [top |-> v.top, left |-> v.left, bottom |-> v.bottom, right |-> v.right,
     min |-> v.min, max |-> v.max, depth |-> v.depth,
     all_search_words |-> <<>>, search_words |-> <<>>, all_letters |-> {}]

normalised(a) ==
    [a EXCEPT !.top = lower_str(a.top), !.left = lower_str(a.left),
              !.bottom = lower_str(a.bottom), !.right = lower_str(a.right),
              !.min = or_default(a.min, MIN_WORD_LENGTH),
              !.max = or_default(a.max, MAX_WORD_LENGTH),
              !.depth = or_default(a.depth, SEARCH_DEPTH)]

\* before parse_arguments has returned there is no namespace yet
no_args ==
    [top |-> <<>>, left |-> <<>>, bottom |-> <<>>, right |-> <<>>,
     min |-> 0, max |-> 0, depth |-> 0,
     all_search_words |-> <<>>, search_words |-> <<>>, all_letters |-> {}]

parse_arguments ==
    /\ pc = "start"
    /\ args' = normalised(namespace(argv))
    /\ pc' = "parsed"
    /\ UNCHANGED <<argv, dictionary, all_solutions, stack, call_args, runs,
                   word, valid>>

----------------------------------------------------------------------------
(* The filter on its own: is_word_valid(word, args) after parse_arguments *)

check_word ==
    /\ pc = "parsed"
    /\ valid' = is_word_valid(word, args)
    /\ pc' = "checked"
    /\ UNCHANGED <<argv, dictionary, args, all_solutions, stack, call_args,
                   runs, word>>

InitFilter ==
    /\ argv \in {[top |-> b.top, left |-> b.left, bottom |-> b.bottom,
                  right |-> b.right, min |-> mn, max |-> mx, depth |-> None] :
                 b \in FilterBoxes, mn \in OptNat(MaxWordLen),
                 mx \in OptNat(MaxWordLen)}
    /\ word \in Seqs(FilterChars, MaxWordLen)
    /\ dictionary = <<word>>
    /\ args = no_args
    /\ all_solutions = <<>>
    /\ stack = <<>>
    /\ pc = "start"
    /\ call_args = args
    /\ runs = <<>>
    /\ valid = FALSE

NextFilter == parse_arguments \/ check_word

SpecFilter == InitFilter /\ [][NextFilter]_vars

----------------------------------------------------------------------------
(* solve, recursive_solve *)

\* set(list(''.join(potential_solution)))
RECURSIVE used_letters(_)
used_letters(chain) ==
    IF chain = <<>> THEN {}
    ELSE Range(Head(chain)) \cup used_letters(Tail(chain))

\* args.all_letters == used_letters (269)
covers_at_full_depth(a, potential_solution) ==
    /\ a.all_letters = used_letters(potential_solution)
    /\ Len(potential_solution) = a.depth

covers_subset(a, potential_solution) ==
    used_letters(potential_solution) \subseteq a.all_letters

covers(a, potential_solution) ==
    a.all_letters = used_letters(potential_solution)

\* [x for x in args.all_search_words if x[0] == last_letter and x != word]
followers_any_first_letter(a, w) ==
    SelectSeq(a.all_search_words, LAMBDA x : x /= w)

followers_of_candidates(a, w) ==
    SelectSeq(a.search_words, LAMBDA x : x[1] = w[Len(w)] /\ x /= w)

followers(a, w) ==
    SelectSeq(a.all_search_words, LAMBDA x : x[1] = w[Len(w)] /\ x /= w)

\* an activation of recursive_solve: solution = solution or [], then the for
\* loop over the list args.search_words names as the loop starts, or no loop
\* at all when depth == args.depth
activation(a, solution, depth) ==
    [solution |-> solution, depth |-> depth,
     words |-> IF depth /= a.depth THEN a.search_words ELSE <<>>,
     i |-> 1]

Top == stack[Len(stack)]
Below == SubSeq(stack, 1, Len(stack) - 1)
Advanced == [Top EXCEPT !.i = Top.i + 1]

\* solve up to its call of recursive_solve(args, [], [])
solve ==
    /\ pc = "parsed"
    /\ LET trimmed == trim_dictionary(dictionary, args)
           a == [args EXCEPT !.all_search_words = trimmed,
                             !.search_words = trimmed,
                             !.all_letters = Range(args.top) \cup Range(args.left)
                                 \cup Range(args.bottom) \cup Range(args.right)]
       IN  /\ args' = a
           /\ call_args' = a
           /\ stack' = <<activation(a, <<>>, 0)>>
    /\ all_solutions' = <<>>
    /\ pc' = "solving"
    /\ UNCHANGED <<argv, dictionary, runs, word, valid>>

\* one pass of the for loop whose chain covers all letters (267-271)
record_solution ==
    /\ pc = "solving"
    /\ stack /= <<>>
    /\ Top.i <= Len(Top.words)
    /\ LET potential_solution == Append(Top.solution, Top.words[Top.i])
       IN  /\ covers(args, potential_solution)
           /\ all_solutions' = Append(all_solutions, potential_solution)
    /\ stack' = Append(Below, Advanced)
    /\ UNCHANGED <<argv, dictionary, args, pc, call_args, runs, word, valid>>

\* one pass of the for loop whose chain does not cover them (272-276), up to
\* the activation of the recursive call
recurse ==
    /\ pc = "solving"
    /\ stack /= <<>>
    /\ Top.i <= Len(Top.words)
    /\ LET w == Top.words[Top.i]
           potential_solution == Append(Top.solution, w)
           a == [args EXCEPT !.search_words = followers(args, w)]
       IN  /\ ~covers(args, potential_solution)
           /\ args' = a
           /\ stack' = Append(Append(Below, Advanced),
                              activation(a, potential_solution, Top.depth + 1))
    /\ UNCHANGED <<argv, dictionary, all_solutions, pc, call_args, runs,
                   word, valid>>

\* return all_solutions (277) from a recursive call
return_inner ==
    /\ pc = "solving"
    /\ Len(stack) > 1
    /\ Top.i > Len(Top.words)
    /\ stack' = Below
    /\ UNCHANGED <<argv, dictionary, args, all_solutions, pc, call_args, runs,
                   word, valid>>

\* return all_solutions (277) from the depth-0 call
return_outer ==
    /\ pc = "solving"
    /\ Len(stack) = 1
    /\ Top.i > Len(Top.words)
    /\ stack' = <<>>
    /\ pc' = "returned"
    /\ runs' = Append(runs, [depth |-> args.depth,
                             fresh |-> call_args.search_words
                                         = call_args.all_search_words,
                             solutions |-> all_solutions])
    /\ UNCHANGED <<argv, dictionary, args, all_solutions, call_args, word,
                   valid>>

\* print_solutions(all_solutions): the program ends
print_solutions ==
    /\ pc = "returned"
    /\ pc' = "done"
    /\ UNCHANGED <<argv, dictionary, args, all_solutions, stack, call_args,
                   runs, word, valid>>

\* recursive_solve(args, [], []) once more on the args object of the call
\* that returned
solve_again ==
    /\ pc = "returned"
    /\ Len(runs) < MaxRuns
    /\ call_args' = args
    /\ all_solutions' = <<>>
    /\ stack' = <<activation(args, <<>>, 0)>>
    /\ pc' = "solving"
    /\ UNCHANGED <<argv, dictionary, args, runs, word, valid>>

\* the program run again on the same box, bounds and dictionary with
\* another --depth
run_again ==
    /\ pc = "done"
    /\ Len(runs) < MaxRuns
    /\ \E d \in {<<k>> : k \in 1..MaxDepthArg} :
          /\ d /= argv.depth
          /\ argv' = [argv EXCEPT !.depth = d]
    /\ args' = no_args
    /\ call_args' = args'
    /\ all_solutions' = <<>>
    /\ stack' = <<>>
    /\ pc' = "start"
    /\ UNCHANGED <<dictionary, runs, word, valid>>

Init ==
    /\ argv \in {[top |-> b.top, left |-> b.left, bottom |-> b.bottom,
                  right |-> b.right, min |-> mn, max |-> mx, depth |-> d] :
                 b \in SearchBoxes, mn \in {None, <<2>>}, mx \in {None, <<3>>},
                 d \in OptNat(MaxDepthArg)}
    /\ dictionary \in Dictionaries
    /\ args = no_args
    /\ all_solutions = <<>>
    /\ stack = <<>>
    /\ pc = "start"
    /\ call_args = args
    /\ runs = <<>>
    /\ word = <<>>
    /\ valid = FALSE

\* the program run once: solve(parse_arguments())
Program ==
    \/ parse_arguments
    \/ solve
    \/ record_solution
    \/ recurse
    \/ return_inner
    \/ return_outer
    \/ print_solutions

\* the program, and the further calls and runs that two results are
\* compared over
Next ==
    \/ Program
    \/ solve_again
    \/ run_again

Spec == Init /\ [][Next]_vars

\* the program run once; it is sequential and never waits, so a step that
\* can be taken is taken
FairSpec == Init /\ [][Program]_vars /\ WF_vars(Program)

----------------------------------------------------------------------------
(* What the claims speak of *)

\* the side a letter resolves to: the first of top, left, bottom, right
\* that holds it
SideNames == <<"t", "l", "b", "r">>
SideLetters(a) == <<Range(a.top), Range(a.left), Range(a.bottom), Range(a.right)>>
OnSomeSide(c, a) == \E k \in 1..4 : c \in SideLetters(a)[k]
letter_to_side(c, a) ==
    SideNames[CHOOSE k \in 1..4 :
                 /\ c \in SideLetters(a)[k]
                 /\ \A j \in 1..(k - 1) : c \notin SideLetters(a)[j]]

BoxLetters(a) == UNION {SideLetters(a)[k] : k \in 1..4}

\* each word after the first starts with the last letter of the one before
Chained(c) == \A i \in 2..Len(c) : c[i][1] = c[i - 1][Len(c[i - 1])]

\* a chain of 1 to max_depth legal words, chained, whose letters are the box's
CoveringChains(a) ==
    {c \in Seqs(Range(a.all_search_words), a.depth) :
        /\ Len(c) >= 1
        /\ Chained(c)
        /\ used_letters(c) = BoxLetters(a)}

Count(c, list) == Cardinality({i \in DOMAIN list : list[i] = c})

NoWordTwice(list) == \A i, j \in DOMAIN list : list[i] = list[j] => i = j

NoWordTwiceRunning(c) == \A i \in 2..Len(c) : c[i] /= c[i - 1]

NoCoveringProperPrefix(c) ==
    \A k \in 1..(Len(c) - 1) : used_letters(SubSeq(c, 1, k)) /= used_letters(c)

\* the depth-0 call that returned was made as solve makes it: the candidates
\* of the root are the legal word list
ReturnedFromSolve ==
    /\ pc = "returned"
    /\ call_args.search_words = call_args.all_search_words

----------------------------------------------------------------------------
(* C1 *)

\* C1 as claimed: every chain of at most max_depth legal words that is
\* chained and covers all letters is exactly once in the returned list.
C1_EveryCoveringChainOnce ==
    ReturnedFromSolve =>
        \A c \in CoveringChains(args) : Count(c, all_solutions) = 1

\* C1 as amended: every such chain in which no word directly follows itself
\* and no proper prefix already covers all letters is in the returned list,
\* and exactly once in it when the legal word list holds no word twice.
C1_EveryMinimalCoveringChain ==
    ReturnedFromSolve =>
        \A c \in CoveringChains(args) :
            (NoWordTwiceRunning(c) /\ NoCoveringProperPrefix(c)) =>
                /\ Count(c, all_solutions) >= 1
                /\ NoWordTwice(args.all_search_words)
                       => Count(c, all_solutions) = 1

C1_Witness ==
    /\ ReturnedFromSolve
    /\ NoWordTwice(args.all_search_words)
    /\ \E c \in CoveringChains(args) :
          /\ Len(c) = 3
          /\ NoWordTwiceRunning(c)
          /\ NoCoveringProperPrefix(c)
          /\ Count(c, all_solutions) = 1
    /\ \E c \in CoveringChains(args) : ~NoCoveringProperPrefix(c)

----------------------------------------------------------------------------
(* C2 *)

\* C2: in every state each recorded chain is made of legal words, is 1 to
\* max_depth words long, is chained, and its letters are exactly the box's.
C2_SolutionsSound ==
    \A k \in DOMAIN all_solutions :
        LET c == all_solutions[k]
        IN  /\ \A i \in DOMAIN c :
                  /\ c[i] \in Range(args.all_search_words)
                  /\ c[i] \in Range(dictionary)
                  /\ is_word_valid(c[i], args)
            /\ Len(c) >= 1
            /\ Len(c) <= args.depth
            /\ Chained(c)
            /\ used_letters(c) = BoxLetters(args)

C2_Witness ==
    /\ pc = "solving"
    /\ Len(all_solutions) >= 2
    /\ \E k \in DOMAIN all_solutions : Len(all_solutions[k]) >= 2

----------------------------------------------------------------------------
(* C3 *)

\* C3: is_word_valid accepts a word iff every letter is on some side, no two
\* adjacent letters resolve to the same side, and min <= len <= max.
C3_FilterCorrect ==
    pc = "checked" =>
        (valid <=>
            /\ \A i \in 1..Len(word) : OnSomeSide(word[i], args)
            /\ \A i \in 1..(Len(word) - 1) :
                  letter_to_side(word[i], args) /= letter_to_side(word[i + 1], args)
            /\ args.min <= Len(word)
            /\ Len(word) <= args.max)

\* a word alternating sides is accepted by a box with two letters on a side
C3_Witness ==
    /\ pc = "checked"
    /\ valid
    /\ args.top = <<"a", "b">>
    /\ word = <<"b", "c", "a">>

----------------------------------------------------------------------------
(* C4 *)

NoRepeat(c) == \A i, j \in DOMAIN c : c[i] = c[j] => i = j

\* C4: no chain built (the solution of an activation) or recorded holds the
\* same word at two positions.
C4_NoWordRepeated ==
    /\ \A k \in DOMAIN stack : NoRepeat(stack[k].solution)
    /\ \A k \in DOMAIN all_solutions : NoRepeat(all_solutions[k])

----------------------------------------------------------------------------
(* C5 *)

\* C5: two depth-0 calls on the same box, bounds, depth and legal word list
\* return the same list, the second call on the same args object included.
C5_Deterministic ==
    \A i, j \in DOMAIN runs :
        runs[i].depth = runs[j].depth => runs[i].solutions = runs[j].solutions

----------------------------------------------------------------------------
(* C6 *)

\* C6: every solution returned with max_depth d1 is returned with max_depth
\* d2 >= d1, everything else the same.
C6_DepthMonotone ==
    \A i, j \in DOMAIN runs :
        (runs[i].fresh /\ runs[j].fresh /\ runs[i].depth <= runs[j].depth) =>
            \A k \in DOMAIN runs[i].solutions :
                Count(runs[i].solutions[k], runs[j].solutions) >= 1

C6_Witness ==
    /\ Len(runs) = 2
    /\ runs[1].fresh /\ runs[2].fresh
    /\ runs[1].depth < runs[2].depth
    /\ runs[1].solutions /= <<>>
    /\ Len(runs[2].solutions) > Len(runs[1].solutions)

----------------------------------------------------------------------------
(* C7 *)

InvalidConfig ==
    \/ argv.depth /= None /\ argv.depth[1] < 1
    \/ or_default(argv.min, MIN_WORD_LENGTH) > or_default(argv.max, MAX_WORD_LENGTH)

\* C7: with max_depth < 1 or min > max the program never starts the search:
\* it ends in a configuration error.
C7_InvalidConfigFailsFast ==
    InvalidConfig => pc \in {"start", "parsed", "config_error"}

----------------------------------------------------------------------------
(* C8 *)

\* C8: the search returns, and returns the empty list when the legal word
\* list is empty or no chain of at most max_depth words covers all letters.
EmptyWithoutCover ==
    IF pc = "returned" /\ all_solutions /= <<>>
    THEN CoveringChains(args) /= {}
    ELSE TRUE

C8_ReturnsAndEmptyWithoutCover ==
    /\ (pc = "solving") ~> (pc = "returned")
    /\ []EmptyWithoutCover

C8_Witness ==
    /\ pc = "returned"
    /\ args.all_search_words /= <<>>
    /\ args.depth >= 2
    /\ CoveringChains(args) = {}
    /\ all_solutions = <<>>

----------------------------------------------------------------------------
(* C9 *)

\* C9: for a box given in lower case a word and its lower-case spelling are
\* both accepted or both rejected.
C9_CaseInsensitive ==
    (pc = "checked" /\ argv.top = args.top /\ argv.left = args.left
        /\ argv.bottom = args.bottom /\ argv.right = args.right) =>
        valid = is_word_valid(lower_str(word), args)

----------------------------------------------------------------------------
(* C10 *)

\* C10: when the depth-0 call returns, args.all_search_words and
\* args.search_words are what they were when it was made.
C10_ArgsUnchanged ==
    pc = "returned" =>
        /\ args.all_search_words = call_args.all_search_words
        /\ args.search_words = call_args.search_words

====
